---------------------------- MODULE Spec2Model ----------------------------
(***************************************************************************)
(* Model of sipi_controller/src/abridge.cpp: the bridge between the ROS    *)
(* topics of a rover and the line protocol of its Arduino.                 *)
(*                                                                         *)
(* Numbers.  The program computes in floating point.  Here a real number   *)
(* r is the integer r * Scale (fixed point, three decimals), so 0.3 is 300 *)
(* and 1.50 is 1500.  Every input of the model has at most three decimals  *)
(* and is an exact grid point; binary rounding below 1/Scale is not        *)
(* modelled.                                                               *)
(*                                                                         *)
(* Text.  Text read from the serial port is a sequence of one-character    *)
(* strings, so that getline's splitting and atof's scanning are computed   *)
(* character by character.  Text written to the port is a TLA+ string.     *)
(***************************************************************************)
EXTENDS Integers, Sequences, FiniteSets, TLC

Scale == 10 * 10 * 10

\* abridge.cpp:21-24
MAX_LIN_VEL_CMD == (3 * Scale) \div 10
MAX_ANG_VEL_CMD == (5 * Scale) \div 10
MAX_MOTOR_CMD == 120

\* The number of telemetry ticks a behaviour of the model runs.
MaxTicks == 2

-----------------------------------------------------------------------------
(* Arithmetic on the fixed-point grid *)

Abs(v) == IF v < 0 THEN -v ELSE v

\* C++ division and float-to-int conversion round toward zero.
QuotT(a, b) == IF a < 0 THEN -((-a) \div b) ELSE a \div b

\* x / 100.0
Div100(v) == QuotT(v, 100)

\* int n = <double>;
TruncToInt(v) == QuotT(v, Scale)

-----------------------------------------------------------------------------
(* Text *)

Digits == <<"0", "1", "2", "3", "4", "5", "6", "7", "8", "9">>

IsDigit(c) == \E i \in 1..10 : Digits[i] = c

DigitVal(c) == (CHOOSE i \in 1..10 : Digits[i] = c) - 1

IsSpace(c) == c \in {" ", "\t", "\r", "\n"}

RECURSIVE SkipSpace(_)
SkipSpace(s) ==
  IF s # <<>> /\ IsSpace(Head(s)) THEN SkipSpace(Tail(s)) ELSE s

\* The longest prefix of s made of decimal digits.
RECURSIVE LeadingDigits(_)
LeadingDigits(s) ==
  IF s # <<>> /\ IsDigit(Head(s))
  THEN <<Head(s)>> \o LeadingDigits(Tail(s))
  ELSE <<>>

RECURSIVE DigitsValue(_)
DigitsValue(ds) ==
  IF ds = <<>> THEN 0
  ELSE DigitsValue(SubSeq(ds, 1, Len(ds) - 1)) * 10 + DigitVal(ds[Len(ds)])

\* The fraction digits fs as a number of 1/Scale (digits past the third are
\* below the grid).
FracValue(fs) ==
  LET d(i) == IF i <= Len(fs) THEN DigitVal(fs[i]) ELSE 0
  IN d(1) * (Scale \div 10) + d(2) * (Scale \div 100) + d(3) * (Scale \div 1000)

\* strtod on text t that starts at the optional sign: -1 for "-", else 1.
SignOf(t) == IF t # <<>> /\ Head(t) = "-" THEN -1 ELSE 1

\* t past its optional sign.
PastSign(t) == IF t # <<>> /\ Head(t) \in {"+", "-"} THEN Tail(t) ELSE t

\* The fraction digits of the text r that follows the integer digits.
FractionDigits(r) ==
  IF r # <<>> /\ Head(r) = "." THEN LeadingDigits(Tail(r)) ELSE <<>>

\* The number with integer digits ip and fraction digits fp; text with no
\* digit at all is no number, and strtod returns 0.0 for it.
Magnitude(ip, fp) ==
  IF ip = <<>> /\ fp = <<>> THEN 0
  ELSE DigitsValue(ip) * Scale + FracValue(fp)

\* The number at the start of the unsigned text u, whose leading digits are ip.
MagnitudeAt(u, ip) ==
  Magnitude(ip, FractionDigits(SubSeq(u, Len(ip) + 1, Len(u))))

strtodFrom(t) == SignOf(t) * MagnitudeAt(PastSign(t), LeadingDigits(PastSign(t)))

\* atof(s.c_str()): leading white space, an optional sign, digits with an
\* optional decimal point; scanning stops at the first character that does
\* not fit, and text with no number at its start gives 0.0.
atof(s) == strtodFrom(SkipSpace(s))

\* Index of the first d in s, 0 when there is none.
FirstIndex(s, d) ==
  IF \E i \in 1..Len(s) : s[i] = d
  THEN CHOOSE i \in 1..Len(s) : s[i] = d /\ \A j \in 1..(i - 1) : s[j] # d
  ELSE 0

\* while (getline(in, piece, d)) pieces.push_back(piece);
\* getline fails only when it can extract nothing: text ending in the
\* delimiter gives no empty last piece.
RECURSIVE Split(_, _)
Split(s, d) ==
  IF s = <<>> THEN <<>>
  ELSE LET k == FirstIndex(s, d)
       IN IF k = 0 THEN <<s>>
          ELSE <<SubSeq(s, 1, k - 1)>> \o Split(SubSeq(s, k + 1, Len(s)), d)

RECURSIVE Join(_, _)
Join(ws, d) ==
  IF ws = <<>> THEN <<>>
  ELSE IF Len(ws) = 1 THEN ws[1]
  ELSE ws[1] \o <<d>> \o Join(Tail(ws), d)

-----------------------------------------------------------------------------
(* Messages *)

\* A default-constructed geometry_msgs::Quaternion is all zero: no rotation
\* at all.  A quaternion made by tf from angles is written by its angles.
ZeroQuaternion == [made |-> FALSE, roll |-> 0, pitch |-> 0, yaw |-> 0]

createQuaternionMsgFromRollPitchYaw(r, p, y) ==
  [made |-> TRUE, roll |-> r, pitch |-> p, yaw |-> y]

createQuaternionMsgFromYaw(y) == createQuaternionMsgFromRollPitchYaw(0, 0, y)

\* geometry_msgs::QuaternionStamped
QuaternionStamped0 == [header |-> [stamp |-> 0], quaternion |-> ZeroQuaternion]

\* sensor_msgs::Imu
Imu0 ==
  [header |-> [stamp |-> 0],
   linear_acceleration |-> [x |-> 0, y |-> 0, z |-> 0],
   angular_velocity |-> [x |-> 0, y |-> 0, z |-> 0],
   orientation |-> ZeroQuaternion]

\* nav_msgs::Odometry
Odometry0 ==
  [header |-> [stamp |-> 0],
   pose |-> [pose |-> [position |-> [x |-> 0, y |-> 0, z |-> 0],
                       orientation |-> ZeroQuaternion]],
   twist |-> [twist |-> [linear |-> [x |-> 0, y |-> 0],
                         angular |-> [z |-> 0]]]]

\* sensor_msgs::Range
Range0 == [header |-> [stamp |-> 0], range |-> 0]

\* geometry_msgs::Twist, the two members the bridge listens to
Twist0 == [linear |-> [x |-> 0], angular |-> [z |-> 0]]

-----------------------------------------------------------------------------
(* The state *)

VARIABLES
  fingerAngle, wristAngle, imu, odom,    \* the telemetry globals
  sonarLeft, sonarCenter, sonarRight,
  cmd_vel_msg,                           \* the current velocity setpoint
  currentMode,
  now,          \* ros::Time::now(), in timer periods
  io,           \* what the callback that ran last received, read, wrote and
                \* published, in the order it did so
  crashed,      \* an exception left a callback, or sprintf aborted: the
                \* process is gone
  rxLog,        \* history: the responses read from the port so far
  before,       \* history: the telemetry globals as the last
                \* serialActivityTimer found them
  driveMsg      \* history: the last message of driveControl, if any

telemetry ==
  <<fingerAngle, wristAngle, imu, odom, sonarLeft, sonarCenter, sonarRight>>

history == <<rxLog, before, driveMsg>>

vars == <<telemetry, cmd_vel_msg, currentMode, now, io, crashed, history>>

\* The telemetry globals as one value, for the operators that update them.
Globals ==
  [fingerAngle |-> fingerAngle, wristAngle |-> wristAngle, imu |-> imu,
   odom |-> odom, sonarLeft |-> sonarLeft, sonarCenter |-> sonarCenter,
   sonarRight |-> sonarRight]

Globals0 ==
  [fingerAngle |-> QuaternionStamped0, wristAngle |-> QuaternionStamped0,
   imu |-> Imu0, odom |-> Odometry0, sonarLeft |-> Range0,
   sonarCenter |-> Range0, sonarRight |-> Range0]

-----------------------------------------------------------------------------
(* parseData *)

W_1    == <<"1">>
W_GRF  == <<"G", "R", "F">>
W_GRW  == <<"G", "R", "W">>
W_IMU  == <<"I", "M", "U">>
W_ODOM == <<"O", "D", "O", "M">>
W_USL  == <<"U", "S", "L">>
W_USC  == <<"U", "S", "C">>
W_USR  == <<"U", "S", "R">>

\* dataSet.at(k): the vector is indexed from 0, a sequence from 1.
at(dataSet, k) == dataSet[k + 1]

\* The statements of one branch run in order and dataSet.at(k) throws
\* std::out_of_range for k >= size(): a statement takes effect when every
\* index read up to and including its own is below size().  Each branch
\* reads its indices in increasing order, so that is: its own index is.
Reached(dataSet, k) == k < Len(dataSet)

parseGRF(g, t, dataSet) ==
  [g EXCEPT !.fingerAngle.header.stamp = t,
            !.fingerAngle.quaternion =
               createQuaternionMsgFromRollPitchYaw(atof(at(dataSet, 2)), 0, 0)]

parseGRW(g, t, dataSet) ==
  [g EXCEPT !.wristAngle.header.stamp = t,
            !.wristAngle.quaternion =
               createQuaternionMsgFromRollPitchYaw(atof(at(dataSet, 2)), 0, 0)]

\* The value a statement leaves in a member: new when the statement is
\* reached, old when an earlier dataSet.at threw.
Assigned(dataSet, k, new, old) == IF Reached(dataSet, k) THEN new ELSE old

parseIMU(g, t, dataSet) ==
  LET f(k) == atof(at(dataSet, k))
      m == g.imu
  IN [g |->
       [g EXCEPT !.imu =
         [header |-> [stamp |-> t],
          linear_acceleration |->
            [x |-> f(2),
             y |-> 0,
             z |-> Assigned(dataSet, 4, f(4), m.linear_acceleration.z)],
          angular_velocity |->
            [x |-> Assigned(dataSet, 5, f(5), m.angular_velocity.x),
             y |-> Assigned(dataSet, 6, f(6), m.angular_velocity.y),
             z |-> Assigned(dataSet, 7, f(7), m.angular_velocity.z)],
          orientation |->
            Assigned(dataSet, 10,
                     createQuaternionMsgFromRollPitchYaw(f(8), f(9), f(10)),
                     m.orientation)]],
      threw |-> ~Reached(dataSet, 10)]

\* addDelta with = in place of +=.
addDelta_Replaces(position, delta) == delta

\* position += delta
addDelta(position, delta) == position + delta

parseODOM(g, t, dataSet) ==
  LET f(k) == atof(at(dataSet, k))
      p == g.odom.pose.pose
      v == g.odom.twist.twist
  IN [g |->
       [g EXCEPT !.odom =
         [header |-> [stamp |-> t],
          pose |-> [pose |->
            [position |->
               [x |-> addDelta(p.position.x, Div100(f(2))),
                y |-> Assigned(dataSet, 3,
                               addDelta(p.position.y, Div100(f(3))),
                               p.position.y),
                z |-> Assigned(dataSet, 3, 0, p.position.z)],
             orientation |->
               Assigned(dataSet, 4, createQuaternionMsgFromYaw(f(4)),
                        p.orientation)]],
          twist |-> [twist |->
            [linear |->
               [x |-> Assigned(dataSet, 5, Div100(f(5)), v.linear.x),
                y |-> Assigned(dataSet, 6, Div100(f(6)), v.linear.y)],
             angular |->
               [z |-> Assigned(dataSet, 7, f(7), v.angular.z)]]]]],
      threw |-> ~Reached(dataSet, 7)]

\* parseSonar that stores the wire value as it is.
parseSonar_WireUnits(m, t, dataSet) ==
  [m EXCEPT !.header.stamp = t, !.range = atof(at(dataSet, 2))]

\* parseSonar that leaves the sample alone when the word has no digit.
parseSonar_SkipsNotNumber(m, t, dataSet) ==
  IF \E k \in DOMAIN at(dataSet, 2) : IsDigit(at(dataSet, 2)[k])
  THEN [m EXCEPT !.header.stamp = t, !.range = Div100(atof(at(dataSet, 2)))]
  ELSE m

parseSonar(m, t, dataSet) ==
  [m EXCEPT !.header.stamp = t, !.range = Div100(atof(at(dataSet, 2)))]

\* isValid without the test of the flag.
isValid_AnyFlag(dataSet) == Len(dataSet) >= 3

\* if (dataSet.size() >= 3 && dataSet.at(1) == "1")
isValid(dataSet) == Len(dataSet) >= 3 /\ at(dataSet, 1) = W_1

\* The body of parseData's loop for one sentence already split into dataSet.
\* The result is the globals as the sentence leaves them, and whether an
\* exception left the loop.
parseSentence(g, t, dataSet) ==
  LET done(h) == [g |-> h, threw |-> FALSE] IN
  IF isValid(dataSet)
  THEN CASE at(dataSet, 0) = W_GRF  -> done(parseGRF(g, t, dataSet))
         [] at(dataSet, 0) = W_GRW  -> done(parseGRW(g, t, dataSet))
         [] at(dataSet, 0) = W_IMU  -> parseIMU(g, t, dataSet)
         [] at(dataSet, 0) = W_ODOM -> parseODOM(g, t, dataSet)
         [] at(dataSet, 0) = W_USL  ->
              done([g EXCEPT !.sonarLeft = parseSonar(@, t, dataSet)])
         [] at(dataSet, 0) = W_USC  ->
              done([g EXCEPT !.sonarCenter = parseSonar(@, t, dataSet)])
         [] at(dataSet, 0) = W_USR  ->
              done([g EXCEPT !.sonarRight = parseSonar(@, t, dataSet)])
         [] OTHER -> done(g)
  ELSE done(g)

\* The sentences of a text, each split into its words.
Sentences(str) ==
  LET ss == Split(str, "\n") IN [i \in DOMAIN ss |-> Split(ss[i], ",")]

RECURSIVE parseData(_, _, _)

\* After one sentence left r: an exception ends parseData, otherwise the
\* loop goes on with the rest.
parseRest(r, t, rest) == IF r.threw THEN r ELSE parseData(r.g, t, rest)

\* parseData, on the sentences of its text: one after the other, until the
\* text ends or an exception leaves the function.
parseData(g, t, sentences) ==
  IF sentences = <<>> THEN [g |-> g, threw |-> FALSE]
  ELSE parseRest(parseSentence(g, t, Head(sentences)), t, Tail(sentences))

-----------------------------------------------------------------------------
(* Formatting *)

RECURSIVE NatToStr(_)
NatToStr(n) ==
  IF n < 10 THEN Digits[n + 1] ELSE NatToStr(n \div 10) \o Digits[(n % 10) + 1]

\* printf's %d
IntToStr(n) == IF n < 0 THEN "-" \o NatToStr(-n) ELSE NatToStr(n)

RECURSIVE NumDigits(_)
NumDigits(n) == IF n < 10 THEN 1 ELSE 1 + NumDigits(n \div 10)

RECURSIVE Pow10(_)
Pow10(k) == IF k <= 0 THEN 1 ELSE 10 * Pow10(k - 1)

\* The decimals of the grid.
ScaleDigits == NumDigits(Scale) - 1

\* n written in exactly w digits.
RECURSIVE PadNat(_, _)
PadNat(n, w) ==
  IF w <= 0 THEN "" ELSE PadNat(n \div 10, w - 1) \o Digits[(n % 10) + 1]

\* The w-digit fraction n, its trailing zeros and an empty fraction's point
\* removed, as %g does.
RECURSIVE FracStr(_, _)
FracStr(n, w) ==
  IF n = 0 \/ w <= 0 THEN ""
  ELSE IF n % 10 = 0 THEN FracStr(n \div 10, w - 1)
  ELSE "." \o PadNat(n, w)

\* printf's %.Pg of the number v: P significant digits, in the style of %e
\* when the decimal exponent X is below -4 or at least P, of %f otherwise.
\* (A value halfway between two P-digit numbers is rounded away from zero
\* here; printf rounds the binary value.)
FormatG(v, P) ==
  LET a  == Abs(v)
      nd == NumDigits(a)
      k  == nd - P
      q0 == IF k > 0 THEN (a + 5 * Pow10(k - 1)) \div Pow10(k)
            ELSE a * Pow10(-k)
      carry == q0 = Pow10(P)
      q  == IF carry THEN Pow10(P - 1) ELSE q0
      X  == (nd - 1) - ScaleDigits + (IF carry THEN 1 ELSE 0)
      w  == (P - 1) - X
      sign == IF v < 0 THEN "-" ELSE ""
  IN IF a = 0 THEN "0"
     ELSE IF X < -4 \/ X >= P
     THEN sign \o NatToStr(q \div Pow10(P - 1))
               \o FracStr(q % Pow10(P - 1), P - 1)
               \o "e" \o (IF X < 0 THEN "-" ELSE "+") \o PadNat(Abs(X), 2)
     ELSE sign \o NatToStr(q \div Pow10(w)) \o FracStr(q % Pow10(w), w)

-----------------------------------------------------------------------------
(* What a callback does to the outside, in order *)

Recv(topic, msg)    == [op |-> "recv", ch |-> topic, data |-> msg]
Publish(topic, msg) == [op |-> "publish", ch |-> topic, data |-> msg]
\* usb.sendData(text)
Write(text)         == [op |-> "write", ch |-> "usb", data |-> text]
\* usb.readData() returning the i-th of the model's responses
Read(i)             == [op |-> "read", ch |-> "usb", data |-> i]

\* abridge.cpp:57
dataCmd == "d\n"

-----------------------------------------------------------------------------
(* Velocity setpoint and motor commands *)

\* limit without its second branch.
limit_NoLowerBound(val, max) == IF val > max THEN max ELSE val

limit(val, max) ==
  IF val > max THEN max
  ELSE IF val < -max THEN -max
  ELSE val

\* clampedTwist that adds the message to the setpoint stored before.
clampedTwist_Merges(message) ==
  [linear  |-> [x |-> limit(cmd_vel_msg.linear.x + message.linear.x,
                            MAX_LIN_VEL_CMD)],
   angular |-> [z |-> limit(cmd_vel_msg.angular.z + message.angular.z,
                            MAX_LIN_VEL_CMD)]]

\* The setpoint driveCommandHandler stores for a message.
clampedTwist(message) ==
  [linear  |-> [x |-> limit(message.linear.x, MAX_LIN_VEL_CMD)],
   angular |-> [z |-> limit(message.angular.z, MAX_LIN_VEL_CMD)]]

Kp == 10

\* motorCommands with each error taken as setpoint minus observed.
motorCommands_ErrorReversed(o, c) ==
  LET err_linear_x  == c.linear.x - o.twist.twist.linear.x
      err_angular_z == c.angular.z - o.twist.twist.angular.z
      vx == TruncToInt(err_linear_x * Kp)
      vz == TruncToInt(err_angular_z * Kp)
  IN [motor_left |-> vx - vz, motor_right |-> vx + vz]

\* The two duties of calculateMotorCommands.
motorCommands(o, c) ==
  LET err_linear_x  == o.twist.twist.linear.x - c.linear.x
      err_angular_z == o.twist.twist.angular.z - c.angular.z
      vx == TruncToInt(err_linear_x * Kp)
      vz == TruncToInt(err_angular_z * Kp)
  IN [motor_left |-> vx - vz, motor_right |-> vx + vz]

\* sprintf(moveCmd, "v,%d,%d\n", motor_left, motor_right)
moveCmd(m) ==
  "v," \o IntToStr(m.motor_left) \o "," \o IntToStr(m.motor_right) \o "\n"

calculateMotorCommands(o, c) == <<Write(moveCmd(motorCommands(o, c)))>>

\* char moveCmd[16]
MoveCmdSize == 16

\* How sprintf can end for the text of motorCommands(o, c).  A text and its
\* terminator that fit moveCmd are written there and sprintf returns (FALSE).
\* For a longer text the behaviour is undefined: sprintf writes past the end
\* of moveCmd, over the globals that follow it, and returns, and the text is
\* sent (FALSE), or a checked sprintf ends the process there (TRUE).
sprintfAborts(o, c) ==
  IF Len(moveCmd(motorCommands(o, c))) < MoveCmdSize THEN {FALSE}
  ELSE {FALSE, TRUE}

-----------------------------------------------------------------------------
(* Gripper commands *)

\* The test of fingerAngleHandler and wristAngleHandler: angle->data < 0.01
isSmallAngle(a) == a < Scale \div 100

\* The text either handler sends; tag is "f" or "w".
angleCmd(tag, a) ==
  IF isSmallAngle(a) THEN tag \o ",0\n"
  ELSE tag \o "," \o FormatG(a, 4) \o "\n"

-----------------------------------------------------------------------------
(* publishRosTopics *)

publishRosTopics(g) ==
  << Publish("fingerAngle/prev_cmd", g.fingerAngle),
     Publish("wristAngle/prev_cmd", g.wristAngle),
     Publish("imu", g.imu),
     Publish("odom", g.odom),
     Publish("sonarLeft", g.sonarLeft),
     Publish("sonarCenter", g.sonarCenter),
     Publish("sonarRight", g.sonarRight) >>

-----------------------------------------------------------------------------
(* The inputs of the model *)

\* n thousandths, on the grid.
Milli(n) == (n * Scale) \div 1000

N_0     == <<"0">>
N_5     == <<"5">>
N_7     == <<"7">>
N_10    == <<"1", "0">>
N_20    == <<"2", "0">>
N_50    == <<"5", "0">>
N_75    == <<"7", "5">>
N_1300  == <<"1", "3", "0", "0">>
N_1000000 == <<"1", "0", "0", "0", "0", "0", "0">>
N_m5    == <<"-", "5">>
N_0p1   == <<"0", ".", "1">>
N_0p5   == <<"0", ".", "5">>
N_1p0   == <<"1", ".", "0">>
N_5p0   == <<"5", ".", "0">>
N_10p0  == <<"1", "0", ".", "0">>
N_150p0 == <<"1", "5", "0", ".", "0">>
N_m0p25 == <<"-", "0", ".", "2", "5">>
N_abc   == <<"a", "b", "c">>
W_XYZ   == <<"X", "Y", "Z">>

\* A sentence as the Arduino prints it: its words with commas between.
Sentence(words) == Join(words, ",")

\* A response: its sentences, each ended by a line feed.
RECURSIVE Response(_)
Response(sentences) ==
  IF sentences = <<>> THEN <<>>
  ELSE Head(sentences) \o <<"\n">> \o Response(Tail(sentences))

S_GRF       == Sentence(<<W_GRF, W_1, N_0p5>>)
S_GRW       == Sentence(<<W_GRW, W_1, N_m0p25>>)
S_IMU       == Sentence(<<W_IMU, W_1>> \o [i \in 1..9 |-> <<Digits[i + 1]>>])
S_IMU_short == Sentence(<<W_IMU, W_1, N_1p0>>)
S_ODOM_a    == Sentence(<<W_ODOM, W_1, N_10p0, N_5p0, N_0p5, N_20, N_0, N_0p1>>)
S_ODOM_b    == Sentence(<<W_ODOM, W_1, N_5p0, N_m5, N_0, N_1300, N_0, N_7>>)
S_ODOM_c    == Sentence(<<W_ODOM, W_1, N_0, N_0, N_0, N_1000000, N_0, N_0>>)
S_ODOM_short == Sentence(<<W_ODOM, W_1, N_10, N_5>>)
S_USL       == Sentence(<<W_USL, W_1, N_150p0>>)
S_USC       == Sentence(<<W_USC, W_1, N_50>>)
S_USC_abc   == Sentence(<<W_USC, W_1, N_abc>>)
S_USR       == Sentence(<<W_USR, W_1, N_75>>)
\* noise: flag not "1", unknown tag, too few words
S_USL_0     == Sentence(<<W_USL, N_0, N_150p0>>)
S_ODOM_0    == Sentence(<<W_ODOM, N_0, N_10p0, N_5p0, N_0p5, N_20, N_0, N_0p1>>)
S_XYZ       == Sentence(<<W_XYZ, W_1, N_5>>)
S_USL_2     == Sentence(<<W_USL, W_1>>)
S_USL_comma == Sentence(<<W_USL, W_1, <<>>>>)
S_IMU_1     == Sentence(<<W_IMU>>)

\* The texts usb.readData() returns in the model.
Responses ==
  << <<>>,
     Response(<<S_GRF, S_GRW>>),
     Response(<<S_IMU>>),
     Response(<<S_IMU_short, S_USR>>),
     Response(<<S_ODOM_a>>),
     Response(<<S_ODOM_b>>),
     Response(<<S_ODOM_short>>),
     Response(<<S_USL, S_USC_abc>>),
     Response(<<S_USL_0, S_ODOM_0, S_XYZ, S_USL_2, <<>>, S_USL_comma, S_IMU_1>>),
     Response(<<S_XYZ, S_USC, S_USL_0>>) \o S_USR,
     Response(<<S_ODOM_c>>) >>

ResponseSentences == [i \in DOMAIN Responses |-> Sentences(Responses[i])]

Tw(lin, ang) == [linear |-> [x |-> lin], angular |-> [z |-> ang]]

\* The velocity setpoints published to driveControl in the model.
DriveMessages ==
  { Tw(Milli(300), 0), Tw(Milli(250), Milli(250)), Tw(Milli(100), Milli(500)),
    Tw(Milli(10000), Milli(400)), Tw(Milli(-10000), Milli(-1000)) }

\* The angles published to fingerAngle/cmd and wristAngle/cmd in the model.
Angles == { Milli(5), Milli(10), Milli(1235), Milli(12346), Milli(-1000) }

\* The modes published to mode in the model.
Modes == {1, 2}

-----------------------------------------------------------------------------
(* The callbacks.  ros::spin() runs them one at a time, each to its end. *)

Init ==
  /\ fingerAngle = QuaternionStamped0
  /\ wristAngle = QuaternionStamped0
  /\ imu = Imu0
  /\ odom = Odometry0
  /\ sonarLeft = Range0
  /\ sonarCenter = Range0
  /\ sonarRight = Range0
  /\ cmd_vel_msg = Twist0
  /\ currentMode = 0
  /\ now = 0
  /\ io = <<>>
  /\ crashed = FALSE
  /\ rxLog = <<>>
  /\ before = Globals0
  /\ driveMsg = <<>>

driveCommandHandler ==
  /\ ~crashed
  /\ \E message \in DriveMessages :
       /\ cmd_vel_msg' = clampedTwist(message)
       /\ io' = <<Recv("driveControl", message)>>
       /\ driveMsg' = <<message>>
  /\ UNCHANGED <<telemetry, currentMode, now, crashed, rxLog, before>>

\* fingerAngleHandler that leaves the sending to a later callback.
fingerAngleHandler_SendsLater ==
  /\ ~crashed
  /\ \E angle \in Angles : io' = <<Recv("fingerAngle/cmd", angle)>>
  /\ UNCHANGED <<telemetry, cmd_vel_msg, currentMode, now, crashed, history>>

fingerAngleHandler ==
  /\ ~crashed
  /\ \E angle \in Angles :
       io' = <<Recv("fingerAngle/cmd", angle), Write(angleCmd("f", angle))>>
  /\ UNCHANGED <<telemetry, cmd_vel_msg, currentMode, now, crashed, history>>

\* wristAngleHandler that also stores the commanded angle as the wrist's.
wristAngleHandler_StoresAngle ==
  /\ ~crashed
  /\ \E angle \in Angles :
       /\ io' = <<Recv("wristAngle/cmd", angle), Write(angleCmd("w", angle))>>
       /\ wristAngle' =
            [wristAngle EXCEPT !.quaternion =
               createQuaternionMsgFromRollPitchYaw(angle, 0, 0)]
  /\ UNCHANGED <<fingerAngle, imu, odom, sonarLeft, sonarCenter, sonarRight,
                 cmd_vel_msg, currentMode, now, crashed, history>>

wristAngleHandler ==
  /\ ~crashed
  /\ \E angle \in Angles :
       io' = <<Recv("wristAngle/cmd", angle), Write(angleCmd("w", angle))>>
  /\ UNCHANGED <<telemetry, cmd_vel_msg, currentMode, now, crashed, history>>

modeHandler ==
  /\ ~crashed
  /\ \E message \in Modes :
       /\ currentMode' = message
       /\ io' = <<Recv("mode", message)>>
  /\ UNCHANGED <<telemetry, cmd_vel_msg, now, crashed, history>>

\* publishHeartBeatTimerEventHandler that also polls the transport.
publishHeartBeatTimerEventHandler_Polls ==
  /\ ~crashed
  /\ io' = <<Publish("abridge/heartbeat", ""), Write(dataCmd)>>
  /\ UNCHANGED <<telemetry, cmd_vel_msg, currentMode, now, crashed, history>>

publishHeartBeatTimerEventHandler ==
  /\ ~crashed
  /\ io' = <<Publish("abridge/heartbeat", "")>>
  /\ UNCHANGED <<telemetry, cmd_vel_msg, currentMode, now, crashed, history>>

\* serialActivity with calculateMotorCommands called before publishRosTopics.
serialActivity_DriveFirst(r, c, i, aborted) ==
  [g |-> r.g,
   crashed |-> r.threw \/ aborted,
   io |-> <<Write(dataCmd), Read(i)>>
          \o (IF r.threw \/ aborted THEN <<>>
              ELSE calculateMotorCommands(r.g.odom, c)
                   \o publishRosTopics(r.g))]

\* What serialActivityTimer does after usb.readData() returned the i-th
\* response and parseData ended as r: the globals parseData leaves, whether
\* the process ended, and the callback's effects on the outside in order.
\* An exception ends the callback where it is thrown, and so does a sprintf
\* that aborts.
serialActivity(r, c, i, aborted) ==
  [g |-> r.g,
   crashed |-> r.threw \/ aborted,
   io |-> <<Write(dataCmd), Read(i)>>
          \o (IF r.threw THEN <<>>
              ELSE publishRosTopics(r.g)
                   \o (IF aborted THEN <<>>
                       ELSE calculateMotorCommands(r.g.odom, c)))]

\* The successor of one tick that read the i-th response.
serialActivityStep(r, i) ==
  /\ fingerAngle' = r.g.fingerAngle
  /\ wristAngle' = r.g.wristAngle
  /\ imu' = r.g.imu
  /\ odom' = r.g.odom
  /\ sonarLeft' = r.g.sonarLeft
  /\ sonarCenter' = r.g.sonarCenter
  /\ sonarRight' = r.g.sonarRight
  /\ io' = r.io
  /\ crashed' = r.crashed
  /\ rxLog' = Append(rxLog, i)

serialActivityTimer ==
  /\ ~crashed
  /\ now < MaxTicks
  /\ \E i \in DOMAIN Responses :
       LET r == parseData(Globals, now + 1, ResponseSentences[i])
       IN \E aborted \in sprintfAborts(r.g.odom, cmd_vel_msg) :
            serialActivityStep(serialActivity(r, cmd_vel_msg, i, aborted), i)
  /\ before' = Globals
  /\ now' = now + 1
  /\ UNCHANGED <<cmd_vel_msg, currentMode, driveMsg>>

Next ==
  \/ driveCommandHandler
  \/ fingerAngleHandler
  \/ wristAngleHandler
  \/ modeHandler
  \/ publishHeartBeatTimerEventHandler
  \/ serialActivityTimer

Spec == Init /\ [][Next]_vars

-----------------------------------------------------------------------------
(* Properties *)

\* The callback that ran last is serialActivityTimer: it alone writes first.
TickRan == io # <<>> /\ io[1].op = "write"

\* serialActivityTimer ran last and reached its end.
TickDone == TickRan /\ ~crashed

\* serialActivityTimer ran last and ended inside parseData, on an exception.
DecodeThrew == TickRan /\ Len(io) = 2

\* The response the last serialActivityTimer read, as sentences.
LastResponse == ResponseSentences[rxLog[Len(rxLog)]]

KnownTags == {W_GRF, W_GRW, W_IMU, W_ODOM, W_USL, W_USC, W_USR}

\* A sentence with fewer than 3 words, or whose second word is not "1", or
\* whose tag is none of the seven.
IsNoise(d) == Len(d) < 3 \/ d[2] # W_1 \/ d[1] \notin KnownTags

\* The sentences of the model's responses, their first 0, 1 and 2 words, and
\* each with another flag or another tag; printed and split again.
SentencePool ==
  LET base == UNION { { ResponseSentences[i][j] :
                          j \in DOMAIN ResponseSentences[i] } :
                      i \in DOMAIN Responses }
      flags == { N_0, <<>>, <<"1", "1">>, <<" ", "1">>, <<"1", " ">> }
      tags  == { W_XYZ, <<>>, <<"u", "s", "l">>, <<"O", "D", "O">> }
      made  == base
               \cup { <<>> }
               \cup UNION { { SubSeq(d, 1, k) :
                                 k \in 1..(IF Len(d) < 2 THEN Len(d) ELSE 2) } :
                             d \in base }
               \cup { [d EXCEPT ![2] = f] :
                        d \in { x \in base : Len(x) >= 2 }, f \in flags }
               \cup { [d EXCEPT ![1] = w] :
                        d \in { x \in base : Len(x) >= 1 }, w \in tags }
  IN { Split(Sentence(d), ",") : d \in made }

NoisePool == { d \in SentencePool : IsNoise(d) }

\* C1: a telemetry line with fewer than 3 fields, or whose second field is
\* not "1", or whose tag is not one of the seven, leaves the whole telemetry
\* state unchanged and raises no error: in every reachable state each such
\* line would, and a response made only of such lines did.
C1_NoiseIsDiscarded ==
  /\ \A d \in NoisePool :
       parseSentence(Globals, now + 1, d) = [g |-> Globals, threw |-> FALSE]
  /\ (rxLog # <<>> /\ \A j \in DOMAIN LastResponse : IsNoise(LastResponse[j]))
       => (Globals = before /\ ~DecodeThrew)

\* A tick read seven lines of noise after an earlier tick had decoded
\* records, and ran to its end with the telemetry as it found it.
C1_Witness ==
  /\ Len(rxLog) = 2
  /\ Len(LastResponse) = 7
  /\ \A j \in DOMAIN LastResponse : IsNoise(LastResponse[j])
  /\ before # Globals0
  /\ Globals = before
  /\ TickDone
  /\ Len(io) = 10

\* A valid sentence with a known tag and fewer words than its tag reads.
IsShort(d) ==
  /\ Len(d) >= 3
  /\ d[2] = W_1
  /\ \/ d[1] = W_IMU /\ Len(d) < 11
     \/ d[1] = W_ODOM /\ Len(d) < 8

\* C2: a line with flag "1" and a known tag but fewer fields than the tag
\* requires is discarded: a response made only of such lines leaves every
\* telemetry global, time stamps included, as the tick found it.
C2_ShortRecordIsDiscarded ==
  (/\ rxLog # <<>>
   /\ LastResponse # <<>>
   /\ \A j \in DOMAIN LastResponse : IsShort(LastResponse[j]))
    => Globals = before

\* C3: decoding never fails its caller: no exception leaves a callback, and
\* every tick, whatever the transport returned, goes on to publish the seven
\* telemetry topics and to send the drive command.
C3_DecodeNeverFails ==
  /\ ~crashed
  /\ TickRan =>
       /\ Len(io) = 10
       /\ \A k \in 3..9 : io[k].op = "publish"
       /\ io[10].op = "write"

\* The drive command the last tick wrote.
DriveWritten == io[Len(io)].data

\* "v,<left>,<right>\n"
DriveText(left, right) ==
  "v," \o IntToStr(left) \o "," \o IntToStr(right) \o "\n"

SafeDuties == (-MAX_MOTOR_CMD)..MAX_MOTOR_CMD

SafeDriveTexts == { DriveText(l, r) : l \in SafeDuties, r \in SafeDuties }

\* C4: every drive command written to the transport carries a left and a
\* right duty of magnitude at most MAX_MOTOR_CMD.
C4_DutyWithinSafeMaximum == TickDone => DriveWritten \in SafeDriveTexts

\* v clamped to [-m, m]
Clamped(v, m) ==
  LET floor == IF v < -m THEN -m ELSE v
  IN IF floor > m THEN m ELSE floor

\* C5: the stored setpoint's angular velocity is the last message's angular
\* velocity clamped to +-0.5 rad/s.
C5_AngularClampedToHalf ==
  driveMsg # <<>> =>
    cmd_vel_msg.angular.z = Clamped(driveMsg[1].angular.z, MAX_ANG_VEL_CMD)

\* C6: the stored setpoint's linear velocity has magnitude at most 0.3 m/s
\* and is the last message's linear velocity clamped to [-0.3, 0.3].
C6_LinearClamped ==
  /\ Abs(cmd_vel_msg.linear.x) <= (3 * Scale) \div 10
  /\ driveMsg # <<>> =>
       cmd_vel_msg.linear.x = Clamped(driveMsg[1].linear.x, (3 * Scale) \div 10)
  /\ driveMsg = <<>> => cmd_vel_msg.linear.x = 0

\* A setpoint of -10.0 m/s arrived and is stored as -0.3 m/s.
C6_Witness ==
  /\ driveMsg # <<>>
  /\ driveMsg[1].linear.x = Milli(-10000)
  /\ cmd_vel_msg.linear.x = Milli(-300)

\* The sentences of all the responses read so far, in order.
RECURSIVE Received(_)
Received(log) ==
  IF log = <<>> THEN <<>>
  ELSE Received(SubSeq(log, 1, Len(log) - 1)) \o ResponseSentences[log[Len(log)]]

\* A valid ODOM record: flag "1" and all of its eight words.
IsOdomRecord(d) == Len(d) >= 8 /\ d[2] = W_1 /\ d[1] = W_ODOM

OdomRecords == SelectSeq(Received(rxLog), IsOdomRecord)

\* The sum of the numbers in word k (counted from 0) of the records.
RECURSIVE SumOfWord(_, _)
SumOfWord(records, k) ==
  IF records = <<>> THEN 0
  ELSE atof(Head(records)[k + 1]) + SumOfWord(Tail(records), k)

\* C7: after the valid ODOM records received so far, x and y are the sums of
\* all their x and y deltas divided by 100, heading and velocities are those
\* of the last record alone (linear velocity divided by 100), and z is 0.
C7_PositionAccumulates ==
  ~crashed =>
    /\ 100 * odom.pose.pose.position.x = SumOfWord(OdomRecords, 2)
    /\ 100 * odom.pose.pose.position.y = SumOfWord(OdomRecords, 3)
    /\ odom.pose.pose.position.z = 0
    /\ OdomRecords = <<>> => odom = Odometry0
    /\ OdomRecords # <<>> =>
         LET last == OdomRecords[Len(OdomRecords)]
         IN /\ odom.pose.pose.orientation =
                 [made |-> TRUE, roll |-> 0, pitch |-> 0, yaw |-> atof(last[5])]
            /\ 100 * odom.twist.twist.linear.x = atof(last[6])
            /\ 100 * odom.twist.twist.linear.y = atof(last[7])
            /\ odom.twist.twist.angular.z = atof(last[8])

\* Two ODOM records with x deltas 10.0 and 5.0 were decoded: x is 0.15 m.
C7_Witness ==
  /\ ~crashed
  /\ Len(OdomRecords) = 2
  /\ atof(OdomRecords[1][3]) = 10 * Scale
  /\ atof(OdomRecords[2][3]) = 5 * Scale
  /\ odom.pose.pose.position.x = Milli(150)

\* v truncated toward zero to an integer
TowardZero(v) == IF v < 0 THEN -((-v) \div Scale) ELSE v \div Scale

ErrorLinear == odom.twist.twist.linear.x - cmd_vel_msg.linear.x

ErrorAngular == odom.twist.twist.angular.z - cmd_vel_msg.angular.z

\* C8 as claimed: left = trunc(error_linear*Kp - error_angular*Kp) and
\* right = trunc(error_linear*Kp + error_angular*Kp), with Kp = 10 and the
\* truncation applied to the combined value.
C8_DutyTruncatedCombined ==
  TickDone =>
    DriveWritten = DriveText(TowardZero(ErrorLinear * 10 - ErrorAngular * 10),
                             TowardZero(ErrorLinear * 10 + ErrorAngular * 10))

\* C8 as amended: each of error_linear*Kp and error_angular*Kp is truncated
\* toward zero on its own, and left is the difference and right the sum of
\* the two integers; observed (0,0) with setpoint (0.3, 0) gives -3, -3.
C8_DutyTruncatedPerTerm ==
  TickDone =>
    /\ DriveWritten =
         DriveText(TowardZero(ErrorLinear * 10) - TowardZero(ErrorAngular * 10),
                   TowardZero(ErrorLinear * 10) + TowardZero(ErrorAngular * 10))
    /\ ( /\ odom.twist.twist.linear.x = 0
         /\ odom.twist.twist.angular.z = 0
         /\ cmd_vel_msg = [linear |-> [x |-> (3 * Scale) \div 10],
                           angular |-> [z |-> 0]] )
         => DriveWritten = "v,-3,-3\n"

\* A tick ran with observed velocity (0,0) and setpoint (0.3, 0).
C8_Witness ==
  /\ TickDone
  /\ odom.twist.twist.linear.x = 0
  /\ odom.twist.twist.angular.z = 0
  /\ cmd_vel_msg.linear.x = Milli(300)
  /\ cmd_vel_msg.angular.z = 0
  /\ DriveWritten = "v,-3,-3\n"

\* C9: a finger or wrist command writes "f,0\n" / "w,0\n" exactly when the
\* angle's absolute magnitude is below 0.01, and otherwise the tag followed
\* by the angle in 4 significant digits, negative angles included.
C9_ZeroFormByMagnitude ==
  (Len(io) = 2 /\ io[1].op = "recv") =>
    LET angle == io[1].data
        tag == IF io[1].ch = "fingerAngle/cmd" THEN "f" ELSE "w"
    IN io[2].data = IF Abs(angle) < Scale \div 100
                    THEN tag \o ",0\n"
                    ELSE tag \o "," \o FormatG(angle, 4) \o "\n"

\* The places in io of the events with the given op, the poll aside.
Places(op) == { k \in 2..Len(io) : io[k].op = op }

TransportWrites == { k \in 1..Len(io) : io[k].op = "write" }

\* The callback that ran last received a message on the topic.
Handled(topic) == io # <<>> /\ io[1].op = "recv" /\ io[1].ch = topic

\* C11: a finger or wrist command is written to the transport exactly once
\* inside its own callback; a velocity setpoint writes nothing in its callback
\* and is only stored, and the drive command of the next tick to reach its
\* end is computed from the setpoint stored for the last message.
C11_JointNowSetpointNextTick ==
  /\ (Handled("fingerAngle/cmd") \/ Handled("wristAngle/cmd")) =>
       /\ Cardinality(TransportWrites) = 1
       /\ io[Len(io)].op = "write"
  /\ Handled("driveControl") =>
       /\ TransportWrites = {}
       /\ io[1].data = driveMsg[1]
  /\ (TickDone /\ driveMsg # <<>>) =>
       DriveWritten =
         DriveText(
           TowardZero((odom.twist.twist.linear.x
                       - limit(driveMsg[1].linear.x, (3 * Scale) \div 10)) * 10)
           - TowardZero((odom.twist.twist.angular.z - cmd_vel_msg.angular.z) * 10),
           TowardZero((odom.twist.twist.linear.x
                       - limit(driveMsg[1].linear.x, (3 * Scale) \div 10)) * 10)
           + TowardZero((odom.twist.twist.angular.z - cmd_vel_msg.angular.z) * 10))

\* A setpoint of (0.25, 0.25) arrived before the first tick, and that tick
\* wrote the drive command of that setpoint, not that of the setpoint (0, 0).
C11_Witness ==
  /\ TickDone
  /\ Len(rxLog) = 1
  /\ driveMsg = <<Tw(Milli(250), Milli(250))>>
  /\ odom.twist.twist = Odometry0.twist.twist
  /\ DriveWritten = "v,0,-4\n"
  /\ DriveWritten # moveCmd(motorCommands(odom, Twist0))

\* Words that do not start with a number.
NotNumbers == { N_abc, <<"-">>, <<".">>, <<"+", "x">>, <<" ", "a">> }

\* One record of each tag with all the words its tag reads.
FullRecords == { S_GRF, S_GRW, S_IMU, S_ODOM_a, S_USL, S_USC, S_USR }

\* Every full record with one numeric word replaced by a word that is no
\* number, next to the same record with "0" there; both printed and split.
NotNumberPairs ==
  UNION { { << Split(Sentence([Split(s, ",") EXCEPT ![k] = w]), ","),
               Split(Sentence([Split(s, ",") EXCEPT ![k] = N_0]), ",") >> :
              k \in 3..Len(Split(s, ",")), w \in NotNumbers } :
          s \in FullRecords }

\* No callback has run, or a tick ran last and neither a setpoint nor a mode
\* has arrived: the telemetry of every reachable state is that of such a state.
AfterTicksAlone ==
  (io = <<>> \/ TickRan) /\ driveMsg = <<>> /\ currentMode = 0

\* C12: a valid record with a numeric field that is no number is applied as
\* the same record with 0.0 in that field and raises no error: on every
\* reachable telemetry each such record would be, in every reachable state
\* "USL,1,abc" would set the left sonar range to 0 with the time of decoding,
\* and a tick that read "USL,1,150.0\nUSC,1,abc\n" left the centre sonar
\* range at 0.
C12_NotNumberIsZero ==
  /\ AfterTicksAlone =>
       \A p \in NotNumberPairs :
         /\ parseSentence(Globals, now + 1, p[1])
              = parseSentence(Globals, now + 1, p[2])
         /\ ~parseSentence(Globals, now + 1, p[1]).threw
  /\ parseSentence(Globals, now + 1, Split(Sentence(<<W_USL, W_1, N_abc>>), ","))
       = [g |-> [Globals EXCEPT !.sonarLeft =
                   [header |-> [stamp |-> now + 1], range |-> 0]],
          threw |-> FALSE]
  /\ (rxLog # <<>> /\ LastResponse = <<Split(S_USL, ","), Split(S_USC_abc, ",")>>)
       => /\ ~DecodeThrew
          /\ sonarCenter = [header |-> [stamp |-> now], range |-> 0]
          /\ sonarLeft = [header |-> [stamp |-> now], range |-> Milli(1500)]

\* The centre sonar stood at 0.5 m from an earlier tick, and the tick that
\* read "USC,1,abc" went to its end and left it at 0.
C12_Witness ==
  /\ TickRan /\ Len(io) >= 9
  /\ Len(rxLog) = 2
  /\ LastResponse = <<Split(S_USL, ","), Split(S_USC_abc, ",")>>
  /\ before.sonarCenter.range = Milli(500)
  /\ sonarCenter.range = 0
  /\ sonarCenter.header.stamp = 2

\* The velocities the last valid ODOM record received so far carried, the
\* linear one in m/s; (0, 0) before the first.
ObservedLinear ==
  IF OdomRecords = <<>> THEN 0
  ELSE Div100(atof(OdomRecords[Len(OdomRecords)][6]))

ObservedAngular ==
  IF OdomRecords = <<>> THEN 0
  ELSE atof(OdomRecords[Len(OdomRecords)][8])

\* The last setpoint message as driveCommandHandler limits it; (0, 0) before
\* the first.
LastSetpoint ==
  IF driveMsg = <<>> THEN Tw(0, 0)
  ELSE Tw(Clamped(driveMsg[1].linear.x, (3 * Scale) \div 10),
          Clamped(driveMsg[1].angular.z, (3 * Scale) \div 10))

\* C13: the drive command a tick writes is a function of the velocities of
\* the last ODOM record applied, that tick's response included, and of the
\* last setpoint message received, limited; earlier setpoint messages and
\* everything else leave no trace in it.
C13_DriveFromLastSetpoint ==
  TickDone =>
    DriveWritten =
      DriveText(TowardZero((ObservedLinear - LastSetpoint.linear.x) * 10)
                - TowardZero((ObservedAngular - LastSetpoint.angular.z) * 10),
                TowardZero((ObservedLinear - LastSetpoint.linear.x) * 10)
                + TowardZero((ObservedAngular - LastSetpoint.angular.z) * 10))

\* The second tick decoded an ODOM record with velocities (0.2, 0.1) while
\* the last setpoint message was (0.1, 0.5), stored as (0.1, 0.3): the drive
\* command is that of the errors (0.1, -0.2).
C13_Witness ==
  /\ TickDone
  /\ Len(rxLog) = 2
  /\ LastResponse = <<Split(S_ODOM_a, ",")>>
  /\ driveMsg = <<Tw(Milli(100), Milli(500))>>
  /\ before.odom.twist.twist # odom.twist.twist
  /\ DriveWritten = "v,3,-1\n"

\* The response has a record with the given tag that parseData applies.
HasRecord(response, tag) ==
  \E j \in DOMAIN response :
    Len(response[j]) >= 3 /\ response[j][2] = W_1 /\ response[j][1] = tag

\* C14: a step changes the telemetry globals only if it is a tick that read a
\* response with a valid record, the finger orientation only with a GRF
\* record and the wrist orientation only with a GRW record; the setpoint,
\* finger, wrist, mode and heartbeat callbacks leave all seven unchanged, and
\* what a tick published is the telemetry it leaves.
C14_TelemetryOnlyByRecords ==
  [][ /\ io'[1].op # "write" => UNCHANGED telemetry
      /\ telemetry' # telemetry =>
           /\ rxLog' # rxLog
           /\ \E tag \in KnownTags :
                HasRecord(ResponseSentences[rxLog'[Len(rxLog')]], tag)
      /\ fingerAngle' # fingerAngle =>
           HasRecord(ResponseSentences[rxLog'[Len(rxLog')]], W_GRF)
      /\ wristAngle' # wristAngle =>
           HasRecord(ResponseSentences[rxLog'[Len(rxLog')]], W_GRW)
      /\ (io'[1].op = "write" /\ Len(io') >= 9) =>
           << io'[3].data, io'[4].data, io'[5].data, io'[6].data,
              io'[7].data, io'[8].data, io'[9].data >> = telemetry'
    ]_vars

\* A finger command of 1.235 was handled after a GRF record of 0.5 had been
\* decoded, and the finger orientation is still that of the record.
C14_Witness ==
  /\ Handled("fingerAngle/cmd")
  /\ io[1].data = Milli(1235)
  /\ io[2].data = "f,1.235\n"
  /\ rxLog # <<>>
  /\ fingerAngle.quaternion = createQuaternionMsgFromRollPitchYaw(Milli(500), 0, 0)
  /\ fingerAngle.header.stamp > 0

\* C15: a heartbeat step publishes one empty message on the heartbeat topic
\* and does nothing else: the setpoint, the telemetry, the mode, the time and
\* all that later callbacks read stay as they are, and nothing is written to
\* the transport, so the steps possible after it, and what they write and
\* publish, are those possible before it.
C15_HeartbeatAlone ==
  [][ (io'[1].op = "publish" /\ io'[1].ch = "abridge/heartbeat") =>
        /\ Len(io') = 1
        /\ io'[1].data = ""
        /\ \A k \in DOMAIN io' : io'[k].op # "write"
        /\ UNCHANGED <<telemetry, cmd_vel_msg, currentMode>>
        /\ UNCHANGED <<now, crashed, history>>
    ]_vars

\* The heartbeat fired after a setpoint and a mode had been stored and a
\* record decoded, and all three are still there.
C15_Witness ==
  /\ Len(io) = 1
  /\ io[1].op = "publish"
  /\ io[1].ch = "abridge/heartbeat"
  /\ cmd_vel_msg = Tw(Milli(250), Milli(250))
  /\ currentMode = 2
  /\ sonarLeft.range = Milli(1500)
  /\ Len(rxLog) = 1

\* Wire words of a sonar record and the ranges they stand for, in 1/Scale m.
SonarWords ==
  { <<N_150p0, Milli(1500)>>, <<N_50, Milli(500)>>, <<N_75, Milli(750)>>,
    <<N_0p5, Milli(5)>>, <<N_m5, Milli(-50)>>, <<N_0, 0>> }

\* A sonar sample taken at time t with the given range.
RangeAt(t, r) == [header |-> [stamp |-> t], range |-> r]

\* The third word of the last record of the response with the given tag.
RECURSIVE LastWord(_, _)
LastWord(response, tag) ==
  LET d == response[Len(response)]
  IN IF Len(d) >= 3 /\ d[2] = W_1 /\ d[1] = tag THEN d[3]
     ELSE LastWord(SubSeq(response, 1, Len(response) - 1), tag)

\* The sonar is as the last tick found it if its response had no record
\* with the tag, and else has the time of the tick and the range of the last
\* such record, divided by 100.
SonarFollows(sonar, was, tag) ==
  IF HasRecord(LastResponse, tag)
  THEN sonar = RangeAt(now, Div100(atof(LastWord(LastResponse, tag))))
  ELSE sonar = was

\* C16: a valid USL, USC or USR record replaces the range of its sonar with
\* the wire value divided by 100 and its stamp with the time of decoding, and
\* leaves the other two sonars, the IMU, the odometry and the joint angles as
\* they are ("USL,1,150.0" gives 1.50 m): on every reachable telemetry each
\* such record would, and after a tick that decoded its whole response each
\* sonar follows the records of its own tag and, when the response had only
\* sonar records, the rest is as the tick found it.
C16_SonarRecordReplacesOwnRange ==
  /\ AfterTicksAlone =>
       \A w \in SonarWords :
         /\ parseSentence(Globals, now + 1,
                          Split(Sentence(<<W_USL, W_1, w[1]>>), ","))
              = [g |-> [Globals EXCEPT !.sonarLeft = RangeAt(now + 1, w[2])],
                 threw |-> FALSE]
         /\ parseSentence(Globals, now + 1,
                          Split(Sentence(<<W_USC, W_1, w[1]>>), ","))
              = [g |-> [Globals EXCEPT !.sonarCenter = RangeAt(now + 1, w[2])],
                 threw |-> FALSE]
         /\ parseSentence(Globals, now + 1,
                          Split(Sentence(<<W_USR, W_1, w[1]>>), ","))
              = [g |-> [Globals EXCEPT !.sonarRight = RangeAt(now + 1, w[2])],
                 threw |-> FALSE]
  /\ (TickRan /\ ~DecodeThrew) =>
       /\ SonarFollows(sonarLeft, before.sonarLeft, W_USL)
       /\ SonarFollows(sonarCenter, before.sonarCenter, W_USC)
       /\ SonarFollows(sonarRight, before.sonarRight, W_USR)
       /\ (\A tag \in {W_GRF, W_GRW, W_IMU, W_ODOM} : ~HasRecord(LastResponse, tag))
            => /\ fingerAngle = before.fingerAngle
               /\ wristAngle = before.wristAngle
               /\ imu = before.imu
               /\ odom = before.odom

\* The second tick read "USL,1,150.0\nUSC,1,abc\n": the left sonar went from
\* 0 to 1.50 m with the time of that tick, and the right sonar kept the range
\* and the time of the first tick.
C16_Witness ==
  /\ TickRan /\ ~DecodeThrew
  /\ Len(rxLog) = 2
  /\ LastResponse = <<Split(S_USL, ","), Split(S_USC_abc, ",")>>
  /\ before.sonarLeft = RangeAt(0, 0)
  /\ sonarLeft = RangeAt(2, Milli(1500))
  /\ before.sonarRight = RangeAt(1, Milli(750))
  /\ sonarRight = before.sonarRight

\* A line parseData is to apply: not noise, and with all the words of its tag.
IsValidLine(d) == ~IsNoise(d) /\ ~IsShort(d)

\* C17: each line of a response is decoded on its own, and a discarded line
\* (too few fields, flag not "1", unknown tag, fewer fields than its tag
\* reads) does not keep a later line from being applied: the telemetry after
\* a tick is that of decoding only the valid lines of its response, in order,
\* from the telemetry the tick found.
C17_ValidLinesAloneDecide ==
  TickRan =>
    Globals = parseData(before, now, SelectSeq(LastResponse, IsValidLine)).g

\* C18: the text of every drive command, terminator included, fits the 16
\* bytes of moveCmd: whenever a tick reaches sprintf, the text for the decoded
\* odometry velocity and the stored setpoint has at most 15 characters, and
\* sprintf returns and the text is sent.
C18_DriveTextFitsBuffer ==
  (TickRan /\ ~DecodeThrew) =>
    /\ Len(moveCmd(motorCommands(odom, cmd_vel_msg))) <= 15
    /\ ~crashed
    /\ Len(DriveWritten) <= 15

=============================================================================
